---- MODULE Spec2Model ----
(***************************************************************************)
(* A model of src/parse_spreadsheet.py: a plaintext spreadsheet is parsed  *)
(* into a grid of cells, a reverse dependency graph is derived, references *)
(* are validated and the cells sorted, every cell is evaluated and the     *)
(* grid is rendered back to text.                                          *)
(*                                                                         *)
(* A raw row is a sequence of fields (the row already split on ','); a     *)
(* field is a sequence of atoms, each atom a word or a single space " ".   *)
(* A float is an exact fraction <<n, d>> with d > 0 in lowest terms.       *)
(* A CellOperand is a record [kind, is_reference, key, num]: its Python    *)
(* attribute _value is `key` when is_reference and `num` otherwise.        *)
(***************************************************************************)
EXTENDS Integers, Sequences, FiniteSets, TLC

VARIABLES
    input,             \* Sheet._input: the raw rows
    cell_graph,        \* Sheet._cell_graph: [order: keys in insertion order, at: key -> slot]
    heap,              \* the cell objects the parser created, by key (mutated in place)
    dependency_graph,  \* Sheet._dependency_graph: referenced key -> list of dependents
    sorted_cells,      \* Sheet._sorted_cells: keys; the 'cell' of an entry is heap[key]
    queue,             \* keys_with_no_dependencies of Sheet._sort
    eval_i,            \* how many entries of sorted_cells Sheet.evaluate has processed
    output,            \* what main wrote to the output file (<<>> while nothing is written)
    pc,                \* position of main
    err                \* the exception that ended the run ("" while none)

vars == <<input, cell_graph, heap, dependency_graph, sorted_cells, queue,
          eval_i, output, pc, err>>

-----------------------------------------------------------------------------
(* Bounds of the model *)

\* literals of the input are the integers 0..MaxLit
MaxLit == 2
\* a sheet of the input has at most MaxCells cells (rows of 26 fields or more apart)
MaxCells == 3
\* depth at which the interpreter gives up a recursion (RecursionError)
RecursionLimit == 10
\* str(float) is modelled to at most MaxDigits digits after the point
MaxDigits == 4

-----------------------------------------------------------------------------
(* Program constants *)

\* string.ascii_uppercase
alphabet ==
    << "A", "B", "C", "D", "E", "F", "G", "H", "I", "J", "K", "L", "M",
       "N", "O", "P", "Q", "R", "S", "T", "U", "V", "W", "X", "Y", "Z" >>

\* the most fields a row may have
MaxColumns == 26

-----------------------------------------------------------------------------
(* Floats as exact fractions *)

Abs(n) == IF n < 0 THEN -n ELSE n

RECURSIVE Gcd(_, _)
Gcd(a, b) == IF b = 0 THEN a ELSE Gcd(b, a % b)

\* the fraction n/d (d # 0) in lowest terms with a positive denominator
Frac(n, d) ==
    LET g == Gcd(Abs(n), Abs(d))
        s == IF d < 0 THEN -1 ELSE 1
    IN  << (s * n) \div g, (s * d) \div g >>

FAdd(a, b) == Frac(a[1] * b[2] + b[1] * a[2], a[2] * b[2])
FSub(a, b) == Frac(a[1] * b[2] - b[1] * a[2], a[2] * b[2])
FMul(a, b) == Frac(a[1] * b[1], a[2] * b[2])
FDiv(a, b) == Frac(a[1] * b[2], a[2] * b[1])
FZero == Frac(0, 1)

-----------------------------------------------------------------------------
(* Text *)

LitToks == { ToString(n) : n \in 0..MaxLit }

\* float(text): the decimal words of the model are the literals
FloatOf(tok) == Frac(CHOOSE n \in 0..MaxLit : ToString(n) = tok, 1)
IsFloat(tok) == tok \in LitToks

\* str.strip(): drop leading and trailing spaces
RECURSIVE LStrip(_)
LStrip(t) == IF t # <<>> /\ Head(t) = " " THEN LStrip(Tail(t)) ELSE t

RECURSIVE RStrip(_)
RStrip(t) ==
    IF t # <<>> /\ t[Len(t)] = " " THEN RStrip(SubSeq(t, 1, Len(t) - 1)) ELSE t

Strip(t) == RStrip(LStrip(t))

\* str.split(' '): cut at every single space; never returns an empty list
RECURSIVE SplitFrom(_, _, _)
SplitFrom(t, cur, acc) ==
    IF t = <<>> THEN Append(acc, cur)
    ELSE IF Head(t) = " " THEN SplitFrom(Tail(t), "", Append(acc, cur))
    ELSE SplitFrom(Tail(t), cur \o Head(t), acc)

Split(t) == SplitFrom(t, "", <<>>)

-----------------------------------------------------------------------------
(* Cells *)

\* CellOperand.__init__ on text: a float if it parses as one, else a reference
CellOperand(value) ==
    IF IsFloat(value)
    THEN [kind |-> "operand", is_reference |-> FALSE, key |-> "", num |-> FloatOf(value)]
    ELSE [kind |-> "operand", is_reference |-> TRUE, key |-> value, num |-> FZero]

\* CellOperand.__init__ on a number
NumOperand(q) ==
    [kind |-> "operand", is_reference |-> FALSE, key |-> "", num |-> q]

CellExpression(operator, operands) ==
    [kind |-> "expr", operator |-> operator, operands |-> operands]

\* the `dependencies` property of CellOperand
OperandDependencies(operand) ==
    IF operand.is_reference THEN << operand.key >> ELSE <<>>

\* the `dependencies` property of a cell (CellOperand or CellExpression)
Dependencies(cell) ==
    IF cell.kind = "operand"
    THEN OperandDependencies(cell)
    ELSE OperandDependencies(cell.operands[1]) \o OperandDependencies(cell.operands[2])

\* `cell_array[0] == 0`: a str never equals the int 0
EqualsIntZero(tok) == FALSE

\* a faulty variant of get_parsed_cell: three tokens or more make an expression
get_parsed_cell_AtLeastThree(cell_text) ==
    LET cell_array == Split(Strip(cell_text))
    IN  IF EqualsIntZero(cell_array[1])
        THEN [err |-> "", cell |-> NumOperand(FZero)]
        ELSE IF Len(cell_array) = 1
        THEN [err |-> "", cell |-> CellOperand(cell_array[1])]
        ELSE IF Len(cell_array) >= 3
        THEN [err |-> "",
              cell |-> CellExpression(cell_array[3],
                          << CellOperand(cell_array[1]), CellOperand(cell_array[2]) >>)]
        ELSE [err |-> "IncorrectlyFormattedCellError", cell |-> NumOperand(FZero)]

\* get_parsed_cell: [err, cell]
get_parsed_cell(cell_text) ==
    LET cell_array == Split(Strip(cell_text))
    IN  IF EqualsIntZero(cell_array[1])
        THEN [err |-> "", cell |-> NumOperand(FZero)]
        ELSE IF Len(cell_array) = 1
        THEN [err |-> "", cell |-> CellOperand(cell_array[1])]
        ELSE IF Len(cell_array) = 3
        THEN [err |-> "",
              cell |-> CellExpression(cell_array[3],
                          << CellOperand(cell_array[1]), CellOperand(cell_array[2]) >>)]
        ELSE [err |-> "IncorrectlyFormattedCellError", cell |-> NumOperand(FZero)]

-----------------------------------------------------------------------------
(* The grid: an insertion-ordered dict from key to slot.  A slot is         *)
(* [tag |-> "orig"] (the object the parser created for the key, heap[key]), *)
(* [tag |-> "res", node |-> o] (a CellOperand made by an evaluation) or     *)
(* [tag |-> "none"] (None).                                                 *)

EmptyMap == [k \in {} |-> 0]
EmptyDict == [order |-> <<>>, at |-> EmptyMap]

Orig == [tag |-> "orig"]
Res(o) == [tag |-> "res", node |-> o]
None == [tag |-> "none"]

HasKey(d, k) == k \in DOMAIN d.at

\* d[k] = v on a dict
DictSet(d, k, v) ==
    IF HasKey(d, k)
    THEN [d EXCEPT !.at[k] = v]
    ELSE [order |-> Append(d.order, k), at |-> (k :> v) @@ d.at]

\* a faulty variant of TooManyColumns: off by one
TooManyColumnsOffByOne(row) == Len(row) > MaxColumns + 1

\* row.strip('\n').split(',') gave more fields than the alphabet has letters
TooManyColumns(row) == Len(row) > MaxColumns

\* the loop of Sheet._parse_row from column col on; st = [cg, heap, err]
RECURSIVE ParseFields(_, _, _, _)
ParseFields(row_num, row, col, st) ==
    IF col > Len(row) \/ st.err # "" THEN st
    ELSE IF col > Len(alphabet) THEN [st EXCEPT !.err = "IndexError"]
    ELSE LET cell_key == alphabet[col] \o ToString(row_num)
             parsed == get_parsed_cell(row[col])
         IN  IF parsed.err # "" THEN [st EXCEPT !.err = parsed.err]
             ELSE ParseFields(row_num, row, col + 1,
                     [cg |-> DictSet(st.cg, cell_key, Orig),
                      heap |-> (cell_key :> parsed.cell) @@ st.heap,
                      err |-> ""])

\* Sheet._parse_row
ParseRow(row_num, row, st) ==
    IF TooManyColumns(row)
    THEN [st EXCEPT !.err = "ColumnNumberLargerThanAlphabetError"]
    ELSE ParseFields(row_num, row, 1, st)

\* the loop of Sheet.build_cell_graph from row row_num on
RECURSIVE ParseRows(_, _, _)
ParseRows(lines, row_num, st) ==
    IF row_num > Len(lines) \/ st.err # "" THEN st
    ELSE ParseRows(lines, row_num + 1, ParseRow(row_num, lines[row_num], st))

-----------------------------------------------------------------------------
(* The sheets of the input: every sheet of one or two cells over all the    *)
(* fields of the model, every sheet of three to MaxCells cells over the     *)
(* common fields, and sheets with a row as long as the alphabet or longer.  *)

Space == " "
RefToks == { "A1", "B1" }
OperatorToks == { "+", "-", "*", "/", "^" }
OperandToks == { "0", ToString(MaxLit) } \cup RefToks

\* one-token fields, blank fields and padded fields
PlainFields ==
    { << t >> : t \in LitToks \cup RefToks \cup { "A2" } }
        \cup { <<>>, << Space >>, << Space, ToString(MaxLit), Space >> }

\* "a b op"
ExprFields ==
    { << a, Space, b, Space, op >> :
        a \in OperandToks, b \in OperandToks, op \in OperatorToks }

\* two tokens, four tokens
BadFields == { << "1", Space, "2" >>, << "1", Space, "2", Space, "+", Space, "1" >> }

AnyFields == PlainFields \cup ExprFields \cup BadFields

\* literals, references and expressions over the first two cells
CommonFields ==
    { << t >> : t \in OperandToks }
        \cup { << "A1", Space, "B1", Space, op >> : op \in OperatorToks }
        \cup { << ToString(MaxLit), Space, "A1", Space, "-" >>,
               << "B1", Space, "0", Space, "/" >> }

RECURSIVE SeqSum(_)
SeqSum(s) == IF s = <<>> THEN 0 ELSE Head(s) + SeqSum(Tail(s))

\* the rows of the given lengths, filled in order from the fields of flat
MkSheet(shape, flat) ==
    [r \in 1..Len(shape) |->
        [c \in 1..shape[r] |-> flat[SeqSum(SubSeq(shape, 1, r - 1)) + c]]]

\* the row lengths of the sheets of one or two cells
ShortShapes == { << 1 >>, << 2 >>, << 1, 1 >> }

\* the row lengths of the sheets of n cells, n > 2: one row, or a last row of one cell
LongShapes(n) == { << n >>, << n - 1, 1 >> }

IsShortSheet(lines) ==
    \E shape \in ShortShapes : \E flat \in [1..SeqSum(shape) -> AnyFields] :
        lines = MkSheet(shape, flat)

IsLongSheet(lines) ==
    \E n \in 3..MaxCells : \E shape \in LongShapes(n) : \E flat \in [1..n -> CommonFields] :
        lines = MkSheet(shape, flat)

\* a row of n fields, all f
Wide(n, f) == [i \in 1..n |-> f]

\* sheets with a row of MaxColumns fields and of one more
WideSheets ==
    { << Wide(MaxColumns, << "1" >>) >> }
        \cup { << Wide(MaxColumns + 1, f) >> : f \in { << "1" >> } \cup BadFields }
        \cup { << << g >>, Wide(MaxColumns + 1, f) >> : f, g \in { << "1" >> } \cup BadFields }
        \cup { << Wide(MaxColumns + 1, f), << g >> >> : f, g \in { << "1" >> } \cup BadFields }

-----------------------------------------------------------------------------
(* main *)

Init ==
    /\ (IsShortSheet(input) \/ IsLongSheet(input) \/ input \in WideSheets)
    /\ cell_graph = EmptyDict
    /\ heap = EmptyMap
    /\ dependency_graph = EmptyMap
    /\ sorted_cells = <<>>
    /\ queue = <<>>
    /\ eval_i = 0
    /\ output = <<>>
    /\ pc = "build_cell_graph"
    /\ err = ""

\* an exception leaves main: nothing more runs
Raise(e) == /\ pc' = "failed" /\ err' = e

\* sheet.build_cell_graph()
BuildCellGraph ==
    /\ pc = "build_cell_graph"
    /\ LET st == ParseRows(input, 1, [cg |-> cell_graph, heap |-> heap, err |-> ""])
       IN  /\ cell_graph' = st.cg
           /\ heap' = st.heap
           /\ IF st.err # "" THEN Raise(st.err)
              ELSE pc' = "build_dependency_graph" /\ err' = ""
    /\ UNCHANGED <<input, dependency_graph, sorted_cells, queue, eval_i, output>>

-----------------------------------------------------------------------------
(* Sheet.build_dependency_graph *)

\* Sheet._add_dependency_to_graph
AddDependencyToGraph(dg, cell_key, dependency_key) ==
    LET have == IF dependency_key \in DOMAIN dg /\ dg[dependency_key] # <<>>
                THEN dg[dependency_key] ELSE <<>>
    IN  (dependency_key :> Append(have, cell_key)) @@ dg

\* the inner loop of build_dependency_graph over cell.dependencies from index i on
RECURSIVE AddDependencies(_, _, _, _)
AddDependencies(dg, cell_key, deps, i) ==
    IF i > Len(deps) THEN dg
    ELSE AddDependencies(AddDependencyToGraph(dg, cell_key, deps[i]), cell_key, deps, i + 1)

\* the outer loop of build_dependency_graph over the grid from index i on
RECURSIVE AddCells(_, _, _, _)
AddCells(dg, order, h, i) ==
    IF i > Len(order) THEN dg
    ELSE AddCells(AddDependencies(dg, order[i], Dependencies(h[order[i]]), 1), order, h, i + 1)

\* sheet.build_dependency_graph()
BuildDependencyGraph ==
    /\ pc = "build_dependency_graph"
    /\ dependency_graph' = AddCells(dependency_graph, cell_graph.order, heap, 1)
    /\ pc' = "validate"
    /\ UNCHANGED <<input, cell_graph, heap, sorted_cells, queue, eval_i, output, err>>

-----------------------------------------------------------------------------
(* Sheet.validate *)

\* a faulty variant of BadReference: the dependents are looked up, not the referenced keys
BadReferenceOfDependents(dg, cg) ==
    \E key \in DOMAIN dg : \E i \in 1..Len(dg[key]) : ~HasKey(cg, dg[key][i])

\* Sheet._check_references finds a referenced key that is no key of the grid
BadReference(dg, cg) == \E key \in DOMAIN dg : ~HasKey(cg, key)

\* the first loop of Sheet._sort: the keys of the cells without dependencies
NoDependencyKeys(cg, h) ==
    SelectSeq(cg.order, LAMBDA key : Dependencies(h[key]) = <<>>)

\* sheet.validate() up to the first loop of _sort
CheckReferences ==
    /\ pc = "validate"
    /\ IF BadReference(dependency_graph, cell_graph)
       THEN Raise("InvalidReferenceError") /\ UNCHANGED queue
       ELSE /\ queue' = NoDependencyKeys(cell_graph, heap)
            /\ pc' = "sort"
            /\ err' = ""
    /\ UNCHANGED <<input, cell_graph, heap, dependency_graph, sorted_cells, eval_i, output>>

\* `dependency_key == a_list`: a str never equals a list
StrEqualsList(key, list) == FALSE

\* `dependency_key in self.dependency_graph.values()`
InValues(dependency_key, dg) ==
    \E k \in DOMAIN dg : StrEqualsList(dependency_key, dg[k])

\* a faulty variant of EnqueueDependent: the dependent is never put in the queue
EnqueueDependentNever(q, dg, check_key, deps, i) == q

\* the for loop of _sort over the dependencies of check_key from index i on
RECURSIVE EnqueueDependent(_, _, _, _, _)
EnqueueDependent(q, dg, check_key, deps, i) ==
    IF i > Len(deps) THEN q
    ELSE EnqueueDependent(
            IF ~InValues(deps[i], dg) THEN Append(q, check_key) ELSE q,
            dg, check_key, deps, i + 1)

\* a faulty variant of DrainDependents: an `if` for the `while`, one dependent is popped
DrainDependentsOnce(prev_key, h, st) ==
    IF prev_key \in DOMAIN st.dg /\ st.dg[prev_key] # <<>>
    THEN LET list == st.dg[prev_key]
             check_key == list[Len(list)]
             dg2 == [st.dg EXCEPT ![prev_key] = SubSeq(list, 1, Len(list) - 1)]
         IN  [q |-> EnqueueDependent(st.q, dg2, check_key, Dependencies(h[check_key]), 1),
              dg |-> dg2]
    ELSE st

\* the inner while loop of _sort; st = [q, dg]
RECURSIVE DrainDependents(_, _, _)
DrainDependents(prev_key, h, st) ==
    IF prev_key \in DOMAIN st.dg /\ st.dg[prev_key] # <<>>
    THEN LET list == st.dg[prev_key]
             check_key == list[Len(list)]
             dg2 == [st.dg EXCEPT ![prev_key] = SubSeq(list, 1, Len(list) - 1)]
         IN  DrainDependents(prev_key, h,
                [q |-> EnqueueDependent(st.q, dg2, check_key, Dependencies(h[check_key]), 1),
                 dg |-> dg2])
    ELSE st

\* a faulty variant of EmptyListCleanup: the emptied list is left in the graph
EmptyListCleanupKeeps(dg, key) == dg

\* Sheet._empty_list_cleanup
EmptyListCleanup(dg, key) ==
    IF key \notin DOMAIN dg THEN dg
    ELSE IF dg[key] # <<>> THEN dg
    ELSE [k \in DOMAIN dg \ { key } |-> dg[k]]

\* one round of the outer while loop of Sheet._sort
SortStep ==
    /\ pc = "sort"
    /\ queue # <<>>
    /\ LET prev_key == queue[Len(queue)]
           st == DrainDependents(prev_key, heap,
                    [q |-> SubSeq(queue, 1, Len(queue) - 1), dg |-> dependency_graph])
       IN  /\ sorted_cells' = Append(sorted_cells, prev_key)
           /\ queue' = st.q
           /\ dependency_graph' = EmptyListCleanup(st.dg, prev_key)
    /\ UNCHANGED <<input, cell_graph, heap, eval_i, output, pc, err>>

\* Sheet._circular_dependencies_exist
CircularDependenciesExist(dg) == DOMAIN dg # {}

\* the keys the message of the CircularDependencyError names
TextualDependencies(dg) == DOMAIN dg

\* a faulty variant of SortDone: the loop of _sort goes on with the queue empty
SortDoneSpins ==
    /\ pc = "sort"
    /\ queue = <<>>
    /\ UNCHANGED <<input, cell_graph, heap, dependency_graph, sorted_cells, queue,
                   eval_i, output, pc, err>>

\* the end of Sheet._sort and the rest of sheet.validate()
SortDone ==
    /\ pc = "sort"
    /\ queue = <<>>
    /\ IF CircularDependenciesExist(dependency_graph)
       THEN Raise("CircularDependencyError")
       ELSE pc' = "evaluate" /\ err' = ""
    /\ UNCHANGED <<input, cell_graph, heap, dependency_graph, sorted_cells, queue,
                   eval_i, output>>

-----------------------------------------------------------------------------
(* evaluate: the objects are addressed by place, << key, 0 >> the cell     *)
(* parsed for key and << key, i >> operand i of that CellExpression.  An   *)
(* evaluation returns [heap, err, ret]: the objects after it, the          *)
(* exception it raised ("" if none) and the object it returned.            *)

NoneObj == [kind |-> "none"]

ObjAt(h, loc) == IF loc[2] = 0 THEN h[loc[1]] ELSE h[loc[1]].operands[loc[2]]

SetObj(h, loc, o) ==
    IF loc[2] = 0 THEN [h EXCEPT ![loc[1]] = o]
    ELSE [h EXCEPT ![loc[1]].operands[loc[2]] = o]

Raised(h, e) == [heap |-> h, err |-> e, ret |-> NoneObj]
Returned(h, o) == [heap |-> h, err |-> "", ret |-> o]

\* a faulty variant of ApplyOperator: the operands of - and / are taken in the other order
ApplyOperatorSwapped(h, operator, one, two) ==
    IF operator = "+" THEN Returned(h, NumOperand(FAdd(one, two)))
    ELSE IF operator = "-" THEN Returned(h, NumOperand(FSub(two, one)))
    ELSE IF operator = "*" THEN Returned(h, NumOperand(FMul(one, two)))
    ELSE IF operator = "/"
    THEN IF one[1] = 0 THEN Raised(h, "ZeroDivisionError")
         ELSE Returned(h, NumOperand(FDiv(two, one)))
    ELSE Returned(h, NoneObj)

\* the dispatch on self.operator of CellExpression.evaluate
ApplyOperator(h, operator, one, two) ==
    IF operator = "+" THEN Returned(h, NumOperand(FAdd(one, two)))
    ELSE IF operator = "-" THEN Returned(h, NumOperand(FSub(one, two)))
    ELSE IF operator = "*" THEN Returned(h, NumOperand(FMul(one, two)))
    ELSE IF operator = "/"
    THEN IF two[1] = 0 THEN Raised(h, "ZeroDivisionError")
         ELSE Returned(h, NumOperand(FDiv(one, two)))
    ELSE Returned(h, NoneObj)

\* a faulty variant of Adopt: the flag is taken over, the value is not
AdoptFlagOnly(self, referenced_cell) ==
    [self EXCEPT !.is_reference = referenced_cell.is_reference]

\* `self._value = referenced_cell.value` and
\* `self._is_reference = referenced_cell.is_reference`
Adopt(self, referenced_cell) ==
    [self EXCEPT
        !.key = referenced_cell.key,
        !.num = referenced_cell.num,
        !.is_reference = referenced_cell.is_reference]

RECURSIVE OperandEvaluate(_, _, _, _)
RECURSIVE ExpressionEvaluate(_, _, _, _)
RECURSIVE SlotEvaluate(_, _, _, _)

\* a faulty variant of OperandEvaluate: the `return self` of a number is missing
OperandEvaluateNoReturn(loc, h, cg, depth) ==
    IF depth > RecursionLimit THEN Raised(h, "RecursionError")
    ELSE LET self == ObjAt(h, loc)
         IN  IF ~self.is_reference THEN Returned(h, NoneObj)
             ELSE IF ~HasKey(cg, self.key) THEN Raised(h, "KeyError")
             ELSE LET r == SlotEvaluate(self.key, h, cg, depth + 1)
                  IN  IF r.err # "" THEN r
                      ELSE IF r.ret = NoneObj THEN Raised(r.heap, "AttributeError")
                      ELSE OperandEvaluate(loc,
                              SetObj(r.heap, loc, Adopt(ObjAt(r.heap, loc), r.ret)),
                              cg, depth)

\* CellOperand.evaluate of the operand at loc, in a frame at the given depth
OperandEvaluate(loc, h, cg, depth) ==
    IF depth > RecursionLimit THEN Raised(h, "RecursionError")
    ELSE LET self == ObjAt(h, loc)
         IN  IF ~self.is_reference THEN Returned(h, self)
             ELSE IF ~HasKey(cg, self.key) THEN Raised(h, "KeyError")
             ELSE LET r == SlotEvaluate(self.key, h, cg, depth + 1)
                  IN  IF r.err # "" THEN r
                      ELSE IF r.ret = NoneObj THEN Raised(r.heap, "AttributeError")
                      ELSE OperandEvaluate(loc,
                              SetObj(r.heap, loc, Adopt(ObjAt(r.heap, loc), r.ret)),
                              cg, depth)

\* a faulty variant of ExpressionEvaluate: the result is also stored in the first operand
ExpressionEvaluateInPlace(key, h, cg, depth) ==
    IF depth > RecursionLimit THEN Raised(h, "RecursionError")
    ELSE LET one == OperandEvaluate(<< key, 1 >>, h, cg, depth + 1)
         IN  IF one.err # "" THEN one
             ELSE LET two == OperandEvaluate(<< key, 2 >>, one.heap, cg, depth + 1)
                  IN  IF two.err # "" THEN two
                      ELSE LET r == ApplyOperator(two.heap, h[key].operator,
                                                  one.ret.num, two.ret.num)
                           IN  IF r.err # "" \/ r.ret = NoneObj THEN r
                               ELSE [r EXCEPT !.heap = SetObj(r.heap, << key, 1 >>, r.ret)]

\* CellExpression.evaluate of the expression parsed for key
ExpressionEvaluate(key, h, cg, depth) ==
    IF depth > RecursionLimit THEN Raised(h, "RecursionError")
    ELSE LET one == OperandEvaluate(<< key, 1 >>, h, cg, depth + 1)
         IN  IF one.err # "" THEN one
             ELSE LET two == OperandEvaluate(<< key, 2 >>, one.heap, cg, depth + 1)
                  IN  IF two.err # "" THEN two
                      ELSE ApplyOperator(two.heap, h[key].operator, one.ret.num, two.ret.num)

\* the evaluate method of the object parsed for key
CellEvaluate(key, h, cg, depth) ==
    IF h[key].kind = "operand"
    THEN OperandEvaluate(<< key, 0 >>, h, cg, depth)
    ELSE ExpressionEvaluate(key, h, cg, depth)

\* a faulty variant of SlotEvaluate: the cell looked up is taken as it is, not evaluated
SlotEvaluateAsIs(key, h, cg, depth) ==
    LET slot == cg.at[key]
    IN  IF slot.tag = "none" THEN Raised(h, "AttributeError")
        ELSE IF slot.tag = "res" THEN Returned(h, slot.node)
        ELSE IF h[key].kind = "operand" THEN Returned(h, h[key])
        ELSE Raised(h, "AttributeError")

\* sheet.get_cell(key).evaluate(sheet)
SlotEvaluate(key, h, cg, depth) ==
    LET slot == cg.at[key]
    IN  IF slot.tag = "none" THEN Raised(h, "AttributeError")
        ELSE IF slot.tag = "res" THEN Returned(h, slot.node)
        ELSE CellEvaluate(key, h, cg, depth)

\* what the grid holds after `self._cell_graph[key] = cell.evaluate(self)`
SlotOf(cell, ret) ==
    IF ret = NoneObj THEN None
    ELSE IF cell.kind = "operand" THEN Orig
    ELSE Res(ret)

\* one round of the for loop of Sheet.evaluate
EvaluateStep ==
    /\ pc = "evaluate"
    /\ eval_i < Len(sorted_cells)
    /\ LET key == sorted_cells[eval_i + 1]
           r == CellEvaluate(key, heap, cell_graph, 1)
       IN  /\ heap' = r.heap
           /\ IF r.err # ""
              THEN Raise(r.err) /\ UNCHANGED <<cell_graph, eval_i>>
              ELSE /\ cell_graph' = DictSet(cell_graph, key, SlotOf(heap[key], r.ret))
                   /\ eval_i' = eval_i + 1
                   /\ UNCHANGED <<pc, err>>
    /\ UNCHANGED <<input, dependency_graph, sorted_cells, queue, output>>

\* the for loop of Sheet.evaluate is over
EvaluateDone ==
    /\ pc = "evaluate"
    /\ eval_i = Len(sorted_cells)
    /\ pc' = "render"
    /\ UNCHANGED <<input, cell_graph, heap, dependency_graph, sorted_cells, queue,
                   eval_i, output, err>>

-----------------------------------------------------------------------------
(* Sheet.get_plaintext_lines *)

Digits == << "0", "1", "2", "3", "4", "5", "6", "7", "8", "9" >>

\* the decimal digits of rem/d after the point, at most `left` of them
RECURSIVE FractionDigits(_, _, _)
FractionDigits(rem, d, left) ==
    IF rem = 0 \/ left = 0 THEN ""
    ELSE Digits[((rem * 10) \div d) + 1] \o FractionDigits((rem * 10) % d, d, left - 1)

\* str(a float): always with a point ("5.0", "0.5", "-2.0")
FloatStr(q) ==
    LET n == Abs(q[1])
        frac == FractionDigits(n % q[2], q[2], MaxDigits)
    IN  (IF q[1] < 0 THEN "-" ELSE "") \o ToString(n \div q[2]) \o "."
            \o (IF frac = "" THEN "0" ELSE frac)

\* key[0], the column letter of a key of the grid
FirstChar(key) ==
    CHOOSE c \in { alphabet[i] : i \in 1..Len(alphabet) } :
        \E r \in 1..Len(input) : key = c \o ToString(r)

\* f'{value.value}' of the object the grid holds for key; "" with err for None
ValueText(key, cg, h) ==
    LET slot == cg.at[key]
    IN  IF slot.tag = "none" THEN [err |-> "AttributeError", text |-> ""]
        ELSE LET o == IF slot.tag = "res" THEN slot.node ELSE h[key]
             IN  IF o.kind = "expr" THEN [err |-> "", text |-> "None"]
                 ELSE IF o.is_reference THEN [err |-> "", text |-> o.key]
                 ELSE [err |-> "", text |-> FloatStr(o.num)]

\* the loop of get_plaintext_lines from index i on; st = [err, text], text a list of pieces
RECURSIVE PlaintextFrom(_, _, _, _)
PlaintextFrom(cg, h, i, st) ==
    IF i > Len(cg.order) \/ st.err # "" THEN st
    ELSE LET key == cg.order[i]
             v == ValueText(key, cg, h)
             broken == IF FirstChar(key) = "A" /\ st.text # <<>>
                       THEN Append(st.text, "\n") ELSE st.text
         IN  IF v.err # "" THEN [st EXCEPT !.err = v.err]
             ELSE PlaintextFrom(cg, h, i + 1,
                     [err |-> "", text |-> broken \o << v.text, "," >>])

get_plaintext_lines(cg, h) == PlaintextFrom(cg, h, 1, [err |-> "", text |-> <<>>])

\* the rest of main: render, then write the output file
WriteOutput ==
    /\ pc = "render"
    /\ LET r == get_plaintext_lines(cell_graph, heap)
       IN  IF r.err # ""
           THEN Raise(r.err) /\ UNCHANGED output
           ELSE output' = r.text /\ pc' = "done" /\ err' = ""
    /\ UNCHANGED <<input, cell_graph, heap, dependency_graph, sorted_cells, queue, eval_i>>

Next ==
    \/ BuildCellGraph
    \/ BuildDependencyGraph
    \/ CheckReferences
    \/ SortStep
    \/ SortDone
    \/ EvaluateStep
    \/ EvaluateDone
    \/ WriteOutput

Spec == Init /\ [][Next]_vars

\* the fields a sort tells apart: without a reference, with one, with two
SortFields ==
    { << ToString(MaxLit) >>, << "A1" >>, << "B1" >>,
      << "A1", Space, "B1", Space, "+" >> }

\* the sheets of up to MaxCells cells over these fields
SortSheets ==
    UNION { { MkSheet(shape, flat) : flat \in [1..SeqSum(shape) -> SortFields] } :
            shape \in ShortShapes \cup UNION { LongShapes(n) : n \in 3..MaxCells } }

InitSort == Init /\ input \in SortSheets

\* main is one thread of control: while the loop of _sort has a round to run
\* or is to be left, that step is taken
FairSpec == InitSort /\ [][Next]_vars /\ WF_vars(SortStep) /\ WF_vars(SortDone)

-----------------------------------------------------------------------------
(* Sheet.evaluate called once more on the sheet main is through with: the  *)
(* entries of sorted_cells still hold the objects the parser created.      *)

\* a caller starts sheet.evaluate() again
EvaluateAgain ==
    /\ pc = "done"
    /\ pc' = "evaluate_again"
    /\ eval_i' = 0
    /\ UNCHANGED <<input, cell_graph, heap, dependency_graph, sorted_cells, queue,
                   output, err>>

\* one round of the for loop of the second Sheet.evaluate
EvaluateAgainStep ==
    /\ pc = "evaluate_again"
    /\ eval_i < Len(sorted_cells)
    /\ LET key == sorted_cells[eval_i + 1]
           r == CellEvaluate(key, heap, cell_graph, 1)
       IN  /\ heap' = r.heap
           /\ IF r.err # ""
              THEN Raise(r.err) /\ UNCHANGED <<cell_graph, eval_i>>
              ELSE /\ cell_graph' = DictSet(cell_graph, key, SlotOf(heap[key], r.ret))
                   /\ eval_i' = eval_i + 1
                   /\ UNCHANGED <<pc, err>>
    /\ UNCHANGED <<input, dependency_graph, sorted_cells, queue, output>>

\* the for loop of the second Sheet.evaluate is over
EvaluateAgainDone ==
    /\ pc = "evaluate_again"
    /\ eval_i = Len(sorted_cells)
    /\ pc' = "evaluated_again"
    /\ UNCHANGED <<input, cell_graph, heap, dependency_graph, sorted_cells, queue,
                   eval_i, output, err>>

NextAgain ==
    \/ Next
    \/ EvaluateAgain
    \/ EvaluateAgainStep
    \/ EvaluateAgainDone

SpecAgain == Init /\ [][NextAgain]_vars

-----------------------------------------------------------------------------
(* Sheet.evaluate visiting the cells in another order: when validation    *)
(* returns, the processing order is replaced by an order of its keys.      *)

\* the elements of a list
Range(seq) == { seq[i] : i \in DOMAIN seq }

\* the sequences that hold every element of S once
RECURSIVE Orders(_)
Orders(S) ==
    IF S = {} THEN { <<>> }
    ELSE UNION { { << x >> \o o : o \in Orders(S \ { x }) } : x \in S }

\* validation returns and the cells are put in another order (sheets of up
\* to MaxCells cells)
Reorder ==
    /\ pc = "sort"
    /\ queue = <<>>
    /\ ~CircularDependenciesExist(dependency_graph)
    /\ Len(cell_graph.order) <= MaxCells
    /\ sorted_cells' \in Orders(Range(sorted_cells))
    /\ pc' = "evaluate"
    /\ err' = ""
    /\ UNCHANGED <<input, cell_graph, heap, dependency_graph, queue, eval_i, output>>

NextAnyOrder ==
    \/ Next
    \/ Reorder

\* the fields of the sheets visited in every order: literals, references,
\* and expressions over one or two cells, one with an unknown operator
OrderFields ==
    { << "0" >>, << ToString(MaxLit) >>, << "A1" >>, << "B1" >>,
      << "A1", Space, "B1", Space, "-" >>,
      << "A1", Space, "B1", Space, "/" >>,
      << "A1", Space, "B1", Space, "^" >>,
      << ToString(MaxLit), Space, "A1", Space, "-" >> }

\* the sheets of up to MaxCells cells over these fields
OrderSheets ==
    UNION { { MkSheet(shape, flat) : flat \in [1..SeqSum(shape) -> OrderFields] } :
            shape \in ShortShapes \cup UNION { LongShapes(n) : n \in 3..MaxCells } }

InitOrder == Init /\ input \in OrderSheets

SpecAnyOrder == InitOrder /\ [][NextAnyOrder]_vars

-----------------------------------------------------------------------------
(* What the properties speak of: the sheet as parsed from the input (its    *)
(* cells P, by key) and the values the grid holds.                          *)

\* the cells that parsing the whole input gives, and the error it ends in
Parsed == ParseRows(input, 1, [cg |-> EmptyDict, heap |-> EmptyMap, err |-> ""])

\* the keys the cell parsed for k refers to
RefsOf(P, k) == Range(Dependencies(P[k]))

AllRefsValid(P) == \A k \in DOMAIN P : RefsOf(P, k) \subseteq DOMAIN P

RECURSIVE Closure(_, _, _)
Closure(P, S, fuel) ==
    IF fuel = 0 THEN S
    ELSE Closure(P, S \cup UNION { RefsOf(P, x) : x \in S \cap DOMAIN P }, fuel - 1)

\* the keys k refers to, directly or through other cells
ReachableFrom(P, k) == Closure(P, RefsOf(P, k), Cardinality(DOMAIN P))

HasCycle(P) == \E k \in DOMAIN P : k \in ReachableFrom(P, k)

\* sheet.validate() returned
ValidateReturned ==
    \/ pc \in { "evaluate", "render", "done" }
    \/ pc = "failed"
        /\ err \in { "RecursionError", "ZeroDivisionError", "AttributeError", "KeyError" }

\* sheet.evaluate() returned
EvaluateReturned ==
    \/ pc \in { "render", "done" }
    \/ pc = "failed" /\ err = "AttributeError" /\ eval_i = Len(sorted_cells)

\* the grid entry of k is a CellOperand holding a number
IsNumeric(k) ==
    LET slot == cell_graph.at[k]
    IN  \/ slot.tag = "res"
        \/ slot.tag = "orig" /\ heap[k].kind = "operand" /\ ~heap[k].is_reference

\* the number the grid holds for k
NumAt(k) == IF cell_graph.at[k].tag = "res" THEN cell_graph.at[k].node.num ELSE heap[k].num

IsRefCell(P, k) == P[k].kind = "operand" /\ P[k].is_reference
IsLitCell(P, k) == P[k].kind = "operand" /\ ~P[k].is_reference
IsExprCell(P, k) == P[k].kind = "expr"

\* the cell a chain of references starting at k ends in
RECURSIVE ChainEnd(_, _, _)
ChainEnd(P, k, fuel) ==
    IF fuel = 0 \/ k \notin DOMAIN P \/ ~IsRefCell(P, k) THEN k
    ELSE ChainEnd(P, P[k].key, fuel - 1)

FirstIndex(seq, x) == CHOOSE i \in 1..Len(seq) : seq[i] = x /\ \A j \in 1..(i - 1) : seq[j] # x

-----------------------------------------------------------------------------
(* C1 *)

\* C1: a sheet that parses, whose references all name cells of the grid and in
\* which some cell refers to itself, directly or through other cells, fails
\* validation with CircularDependencyError and is never evaluated.
C1_CycleIsRejected ==
    LET P == Parsed.heap
    IN  (Parsed.err = "" /\ AllRefsValid(P) /\ HasCycle(P)) =>
            /\ ~ValidateReturned
            /\ (pc = "failed" => err = "CircularDependencyError")

-----------------------------------------------------------------------------
(* C2 *)

\* C2: a sheet that parses and in which some cell, as an operand or as an
\* operand of an expression, refers to a key that is no key of the grid fails
\* validation with InvalidReferenceError, before anything is sorted or evaluated.
C2_InvalidReferenceIsRejected ==
    LET P == Parsed.heap
    IN  (Parsed.err = "" /\ ~AllRefsValid(P)) =>
            /\ pc \in { "build_cell_graph", "build_dependency_graph", "validate", "failed" }
            /\ (pc = "failed" => err = "InvalidReferenceError")
            /\ queue = <<>>
            /\ sorted_cells = <<>>
            /\ eval_i = 0

\* an expression with an operand naming a cell the grid lacks was rejected
C2_Witness ==
    /\ pc = "failed"
    /\ err = "InvalidReferenceError"
    /\ LET P == Parsed.heap
       IN  \E k \in DOMAIN P :
            /\ IsExprCell(P, k)
            /\ \E r \in RefsOf(P, k) : r \notin DOMAIN P /\ r # ""

-----------------------------------------------------------------------------
(* C3 *)

\* C3: once validation has returned, the evaluation finishes: no recursion of
\* evaluate calls goes on until the interpreter gives it up.
C3_EvaluationReturns == ValidateReturned => err # "RecursionError"

-----------------------------------------------------------------------------
(* C4 *)

\* C4: when build, validation and evaluation have completed without error,
\* every entry of the grid is an operand holding a number.
C4_AllNumericAfterEvaluate ==
    EvaluateReturned => \A k \in DOMAIN cell_graph.at : IsNumeric(k)

-----------------------------------------------------------------------------
(* C5 *)

\* C5: after the evaluation of a validated sheet, a cell X whose only content
\* is a reference to a cell Y holds the number Y holds, and the number of the
\* literal its chain of references ends in, if it ends in one.
C5_ReferenceResolves ==
    EvaluateReturned =>
        LET P == Parsed.heap
        IN  \A x \in DOMAIN P : IsRefCell(P, x) =>
                LET y == P[x].key
                    z == ChainEnd(P, x, Cardinality(DOMAIN P))
                IN  /\ IsNumeric(x)
                    /\ IsNumeric(y)
                    /\ NumAt(x) = NumAt(y)
                    /\ IsLitCell(P, z) => NumAt(x) = P[z].num

\* a chain X -> Y -> Z -> literal was evaluated
C5_Witness ==
    /\ pc = "done"
    /\ LET P == Parsed.heap
       IN  \E x \in DOMAIN P :
            /\ IsRefCell(P, x)
            /\ LET y == P[x].key
               IN  /\ y # x
                   /\ IsRefCell(P, y)
                   /\ P[y].key \notin { x, y }
                   /\ IsLitCell(P, P[y].key)
                   /\ P[P[y].key].num # FZero

-----------------------------------------------------------------------------
(* C6 *)

ArithmeticOperators == { "+", "-", "*", "/" }

\* the number an operand of a parsed expression stands for after the evaluation
OperandValue(o) == IF o.is_reference THEN NumAt(o.key) ELSE o.num

\* a op b
Arithmetic(op, a, b) ==
    CASE op = "+" -> FAdd(a, b)
      [] op = "-" -> FSub(a, b)
      [] op = "*" -> FMul(a, b)
      [] op = "/" -> FDiv(a, b)

\* C6: after the evaluation of a validated sheet, a cell 'a b op' with op one
\* of + - * / (and a divisor that is not zero for /) holds op applied to the
\* final values of a and b, each a literal or a reference.
C6_ExpressionValue ==
    EvaluateReturned =>
        LET P == Parsed.heap
        IN  \A k \in DOMAIN P :
                (IsExprCell(P, k) /\ P[k].operator \in ArithmeticOperators) =>
                    LET e == P[k]
                    IN  /\ IsNumeric(k)
                        /\ \A i \in 1..2 :
                            e.operands[i].is_reference => IsNumeric(e.operands[i].key)
                        /\ LET a == OperandValue(e.operands[1])
                               b == OperandValue(e.operands[2])
                           IN  (e.operator = "/" => b[1] # 0) =>
                                    NumAt(k) = Arithmetic(e.operator, a, b)

\* an expression was evaluated before a cell it refers to came up in the order
C6_Witness ==
    /\ pc = "done"
    /\ LET P == Parsed.heap
       IN  \E k \in DOMAIN P :
            /\ IsExprCell(P, k)
            /\ P[k].operator \in { "-", "/" }
            /\ \E r \in RefsOf(P, k) :
                /\ r # k
                /\ FirstIndex(sorted_cells, k) < FirstIndex(sorted_cells, r)
            /\ NumAt(k) \notin { FZero, Frac(1, 1) }

-----------------------------------------------------------------------------
(* C7 *)

IsBlank(field) == \A i \in 1..Len(field) : field[i] = Space
IsTextualZero(field) == Split(Strip(field)) = << "0" >>

\* C7: a field that is empty or only spaces, or that is a textual zero, is
\* parsed to the operand holding the number 0.
C7_BlankIsZero ==
    pc = "build_dependency_graph" =>
        \A r \in 1..Len(input) : \A c \in 1..Len(input[r]) :
            (IsBlank(input[r][c]) \/ IsTextualZero(input[r][c])) =>
                heap[alphabet[c] \o ToString(r)] = NumOperand(FZero)

-----------------------------------------------------------------------------
(* C8 *)

IsMalformed(field) == Len(Split(Strip(field))) \notin { 1, 3 }

\* C8: a field that splits into a number of tokens other than one or three,
\* in a row the parser reaches (no row up to its own has more fields than the
\* alphabet has letters), makes build_cell_graph fail with
\* IncorrectlyFormattedCellError: no dependency graph is built, nothing is
\* validated, sorted or evaluated.
C8_MalformedIsRejected ==
    pc # "build_cell_graph" =>
        ((\E r \in 1..Len(input) :
            /\ \E c \in 1..Len(input[r]) : IsMalformed(input[r][c])
            /\ \A q \in 1..r : Len(input[q]) <= MaxColumns)
        => /\ pc = "failed"
           /\ err = "IncorrectlyFormattedCellError"
           /\ dependency_graph = EmptyMap
           /\ queue = <<>>
           /\ sorted_cells = <<>>
           /\ eval_i = 0)

\* a field of four tokens, after a cell that parsed, was rejected
C8_Witness ==
    /\ pc = "failed"
    /\ err = "IncorrectlyFormattedCellError"
    /\ cell_graph.order # <<>>
    /\ \E r \in 1..Len(input) : \E c \in 1..Len(input[r]) :
        Len(Split(Strip(input[r][c]))) = 4

-----------------------------------------------------------------------------
(* C9 *)

\* the first row with more fields than the alphabet has letters (0 if none)
FirstWideRow ==
    IF \E r \in 1..Len(input) : Len(input[r]) > MaxColumns
    THEN CHOOSE r \in 1..Len(input) :
            /\ Len(input[r]) > MaxColumns
            /\ \A q \in 1..(r - 1) : Len(input[q]) <= MaxColumns
    ELSE 0

\* C9: a row with more than 26 fields makes build_cell_graph fail with
\* ColumnNumberLargerThanAlphabetError before any of its cells is parsed or
\* added to the grid, whatever its fields and the later rows hold (an earlier
\* row with a malformed field fails first, with its own error).
C9_WideRowIsRejected ==
    (pc # "build_cell_graph" /\ FirstWideRow # 0) =>
        LET r == FirstWideRow
            earlier_ok == \A q \in 1..(r - 1) : \A c \in 1..Len(input[q]) :
                            ~IsMalformed(input[q][c])
        IN  /\ pc = "failed"
            /\ earlier_ok => err = "ColumnNumberLargerThanAlphabetError"
            /\ ~earlier_ok => err = "IncorrectlyFormattedCellError"
            /\ \A c \in 1..Len(alphabet) : ~HasKey(cell_graph, alphabet[c] \o ToString(r))
            /\ dependency_graph = EmptyMap
            /\ sorted_cells = <<>>

\* a row of 27 fields, malformed ones among them, and with a row after it, was rejected
C9_Witness ==
    /\ pc = "failed"
    /\ err = "ColumnNumberLargerThanAlphabetError"
    /\ Len(input) = 2
    /\ Len(input[1]) = MaxColumns + 1
    /\ IsMalformed(input[1][1])
    /\ IsMalformed(input[2][1])

-----------------------------------------------------------------------------
(* C10 *)

\* the operand is the literal 0 or a reference whose chain ends in the literal 0
ResolvesToZero(P, o) ==
    IF ~o.is_reference THEN o.num = FZero
    ELSE LET z == ChainEnd(P, o.key, Cardinality(DOMAIN P))
         IN  z \in DOMAIN P /\ IsLitCell(P, z) /\ P[z].num = FZero

HasDivisionByZero(P) ==
    \E k \in DOMAIN P :
        /\ IsExprCell(P, k)
        /\ P[k].operator = "/"
        /\ ResolvesToZero(P, P[k].operands[2])

\* C10: a validated sheet with an expression a b / whose second operand
\* resolves to 0 fails in the evaluation with ZeroDivisionError: the run ends
\* in failure and nothing is written.
C10_DivisionByZeroFails ==
    (ValidateReturned /\ HasDivisionByZero(Parsed.heap)) =>
        /\ pc \in { "evaluate", "failed" }
        /\ (pc = "failed" => err = "ZeroDivisionError")
        /\ output = <<>>

-----------------------------------------------------------------------------
(* C11 *)

\* what get_plaintext_lines returns for the grid as it is
Rendered == get_plaintext_lines(cell_graph, heap)

\* C11: no round of a second Sheet.evaluate, run on a sheet whose evaluation
\* completed with every grid entry a numeric operand, changes the number a grid
\* entry holds or raises, and the grid renders to the text the first run wrote.
C11_SecondEvaluateChangesNothing ==
    [][ (pc = "evaluate_again" /\ \A k \in DOMAIN cell_graph.at : IsNumeric(k)) =>
            /\ err' = ""
            /\ \A k \in DOMAIN cell_graph.at : IsNumeric(k)' /\ NumAt(k)' = NumAt(k)
            /\ Rendered'.err = ""
            /\ Rendered'.text = output ]_vars

\* the second evaluation of a sheet with an expression over two references,
\* sorted more than once, is over
C11_Witness ==
    /\ pc = "evaluated_again"
    /\ LET P == Parsed.heap
       IN  \E k \in DOMAIN P :
            /\ IsExprCell(P, k)
            /\ Cardinality(RefsOf(P, k)) = 2
            /\ Cardinality({ i \in DOMAIN sorted_cells : sorted_cells[i] = k }) > 1
            /\ NumAt(k) \notin { FZero, Frac(1, 1) }
-----------------------------------------------------------------------------
(* C12 *)

\* C12: when validation has succeeded, every cell of the processing order
\* appears in it only after every cell it refers to has appeared.
C12_OrderIsTopological ==
    pc = "evaluate" =>
        LET P == Parsed.heap
        IN  \A i \in DOMAIN sorted_cells :
                \A r \in RefsOf(P, sorted_cells[i]) :
                    \E j \in 1..(i - 1) : sorted_cells[j] = r

-----------------------------------------------------------------------------
(* C13 *)

\* how often key occurs in seq
Count(seq, key) == Cardinality({ i \in DOMAIN seq : seq[i] = key })

\* C13: a key is in the ready queue only when every cell it refers to has
\* been appended to the processing order, no key is appended to the processing
\* order twice, and an evaluation that returned has replaced every grid entry
\* exactly once.
C13_EachKeyProcessedOnce ==
    /\ pc = "sort" =>
            \A i \in DOMAIN queue :
                RefsOf(Parsed.heap, queue[i]) \subseteq Range(sorted_cells)
    /\ \A i, j \in DOMAIN sorted_cells : sorted_cells[i] = sorted_cells[j] => i = j
    /\ EvaluateReturned =>
            \A k \in DOMAIN cell_graph.at : Count(sorted_cells, k) = 1
-----------------------------------------------------------------------------
(* C14 *)

\* sheet.validate() raised CircularDependencyError
CycleReported == pc = "failed" /\ err = "CircularDependencyError"

\* the cell of k refers to itself, directly or through other cells
OnCycle(P, k) == k \in DOMAIN P /\ k \in ReachableFrom(P, k)

\* the cell of k is on a cycle or refers, directly or through other cells, to one that is
LeadsToCycle(P, k) ==
    k \in DOMAIN P /\ \E c \in { k } \cup ReachableFrom(P, k) : OnCycle(P, c)

\* the cells of A1 and B1 refer to each other and no other cell refers to anything
OnlyMutualCycle(P) ==
    /\ { "A1", "B1" } \subseteq DOMAIN P
    /\ RefsOf(P, "A1") = { "B1" }
    /\ RefsOf(P, "B1") = { "A1" }
    /\ \A k \in DOMAIN P \ { "A1", "B1" } : RefsOf(P, k) = {}

\* C14 as claimed: when validation fails with CircularDependencyError, every
\* key the error names (the keys left in the dependency graph) is the key of
\* a cell on a reference cycle, and for the mutual cycle A1 -> B1 -> A1 the
\* error names exactly A1 and B1.
C14_ReportedKeysAreOnCycles ==
    CycleReported =>
        LET P == Parsed.heap
        IN  /\ \A k \in TextualDependencies(dependency_graph) : OnCycle(P, k)
            /\ OnlyMutualCycle(P) =>
                    TextualDependencies(dependency_graph) = { "A1", "B1" }

\* C14 as amended: when validation fails with CircularDependencyError, every
\* key the error names (the keys left in the dependency graph) is the key of
\* a cell that is on a reference cycle or refers, directly or through other
\* cells, to a cell on one, and for the mutual cycle A1 -> B1 -> A1 the error
\* names exactly A1 and B1.
C14_ReportedKeysLeadToCycles ==
    CycleReported =>
        LET P == Parsed.heap
        IN  /\ \A k \in TextualDependencies(dependency_graph) : LeadsToCycle(P, k)
            /\ OnlyMutualCycle(P) =>
                    TextualDependencies(dependency_graph) = { "A1", "B1" }

\* a CircularDependencyError named a key whose cell is on no cycle
C14_Witness ==
    /\ CycleReported
    /\ \E k \in TextualDependencies(dependency_graph) : ~OnCycle(Parsed.heap, k)

-----------------------------------------------------------------------------
(* C15 *)

\* C15: on a sheet that parses, whose references all name cells of the grid
\* and in which no cell refers to itself, directly or through other cells,
\* the sort leaves the dependency graph empty and validation does not fail
\* with CircularDependencyError.
C15_NoFalseCycleAlarm ==
    (pc \notin { "build_cell_graph", "build_dependency_graph", "validate" }) =>
        LET P == Parsed.heap
        IN  (Parsed.err = "" /\ AllRefsValid(P) /\ ~HasCycle(P)) =>
                /\ err # "CircularDependencyError"
                /\ (pc = "sort" /\ queue = <<>>) => dependency_graph = EmptyMap
                /\ ValidateReturned => dependency_graph = EmptyMap

\* validation returned on an acyclic sheet in which a cell has two dependents,
\* one of them through an expression over two cells
C15_Witness ==
    /\ pc = "evaluate"
    /\ LET P == Parsed.heap
       IN  /\ ~HasCycle(P)
           /\ \E k \in DOMAIN P : \E d, e \in DOMAIN P :
                /\ d # e
                /\ k \in RefsOf(P, d) \cap RefsOf(P, e)
                /\ Cardinality(RefsOf(P, e)) = 2

-----------------------------------------------------------------------------
(* C16 *)

(* The call stack of an evaluation: `stack` holds the keys of the cells     *)
(* whose evaluate is running.  The operators follow OperandEvaluate,        *)
(* ExpressionEvaluate and SlotEvaluate call by call and tell whether some   *)
(* call enters a cell whose key is on the stack.                            *)

RECURSIVE OperandReenters(_, _, _, _, _)
RECURSIVE CellReenters(_, _, _, _, _)

\* sheet.get_cell(key).evaluate(sheet) enters the cell of key
SlotReenters(key, h, cg, stack, depth) ==
    \/ key \in stack
    \/ cg.at[key].tag = "orig" /\ CellReenters(key, h, cg, stack, depth)

\* CellOperand.evaluate of the operand at loc
OperandReenters(loc, h, cg, stack, depth) ==
    IF depth > RecursionLimit THEN FALSE
    ELSE LET self == ObjAt(h, loc)
         IN  IF ~self.is_reference \/ ~HasKey(cg, self.key) THEN FALSE
             ELSE \/ SlotReenters(self.key, h, cg, stack, depth + 1)
                  \/ LET r == SlotEvaluate(self.key, h, cg, depth + 1)
                     IN  /\ r.err = ""
                         /\ r.ret # NoneObj
                         /\ OperandReenters(loc,
                                SetObj(r.heap, loc, Adopt(ObjAt(r.heap, loc), r.ret)),
                                cg, stack, depth)

\* CellExpression.evaluate of the expression parsed for key
ExpressionReenters(key, h, cg, stack, depth) ==
    IF depth > RecursionLimit THEN FALSE
    ELSE \/ OperandReenters(<< key, 1 >>, h, cg, stack, depth + 1)
         \/ LET one == OperandEvaluate(<< key, 1 >>, h, cg, depth + 1)
            IN  /\ one.err = ""
                /\ OperandReenters(<< key, 2 >>, one.heap, cg, stack, depth + 1)

\* the evaluate method of the object parsed for key, which goes on the stack
CellReenters(key, h, cg, stack, depth) ==
    IF h[key].kind = "operand"
    THEN OperandReenters(<< key, 0 >>, h, cg, stack \cup { key }, depth)
    ELSE ExpressionReenters(key, h, cg, stack \cup { key }, depth)

\* C16: once validation has succeeded, no round of Sheet.evaluate enters a
\* cell for resolution while that cell is on the stack of running evaluate
\* calls.
C16_NoReentrantResolution ==
    (pc = "evaluate" /\ eval_i < Len(sorted_cells)) =>
        ~CellReenters(sorted_cells[eval_i + 1], heap, cell_graph, {}, 1)

-----------------------------------------------------------------------------
(* C17 *)

\* the operand objects the parser created: a cell that is an operand, or an
\* operand of a cell that is an expression
OperandPlaces ==
    { << k, 0 >> : k \in { x \in DOMAIN heap : heap[x].kind = "operand" } }
        \cup { << k, i >> : k \in { x \in DOMAIN heap : heap[x].kind = "expr" }, i \in 1..2 }

\* C17: in no step of Sheet.evaluate does a grid entry that holds a number
\* come to hold another number or something that is no number, and no operand
\* object that holds a number is changed.
C17_ResolvedIsTerminal ==
    [][ pc = "evaluate" =>
            /\ \A k \in DOMAIN cell_graph.at :
                    IsNumeric(k) => (IsNumeric(k)' /\ NumAt(k)' = NumAt(k))
            /\ \A loc \in OperandPlaces :
                    ~ObjAt(heap, loc).is_reference => ObjAt(heap', loc) = ObjAt(heap, loc)
       ]_vars

\* the evaluation is over of a sheet in which an expression was visited more
\* than once and refers to a cell that is itself a reference
C17_Witness ==
    /\ pc = "render"
    /\ LET P == Parsed.heap
       IN  \E k \in DOMAIN P :
            /\ IsExprCell(P, k)
            /\ Count(sorted_cells, k) > 1
            /\ \E r \in RefsOf(P, k) : IsRefCell(P, r)
            /\ IsNumeric(k)

-----------------------------------------------------------------------------
(* C18 *)

\* what the contents of the sheet make of an operand: << "num", q >>, or
\* << "error", 0 >> when looking it up fails
RECURSIVE CellMeaning(_, _, _)
OperandMeaning(P, o, fuel) ==
    IF ~o.is_reference THEN << "num", o.num >>
    ELSE IF fuel = 0 \/ o.key \notin DOMAIN P THEN << "error", FZero >>
    ELSE LET d == CellMeaning(P, o.key, fuel - 1)
         IN  IF d[1] = "num" THEN d ELSE << "error", FZero >>

\* what the contents of the sheet make of the cell k: a number, << "none", 0 >>
\* for an expression with an unknown operator, or << "error", 0 >>
CellMeaning(P, k, fuel) ==
    IF P[k].kind = "operand" THEN OperandMeaning(P, P[k], fuel)
    ELSE LET a == OperandMeaning(P, P[k].operands[1], fuel)
             b == OperandMeaning(P, P[k].operands[2], fuel)
         IN  IF a[1] # "num" \/ b[1] # "num" THEN << "error", FZero >>
             ELSE IF P[k].operator \notin ArithmeticOperators THEN << "none", FZero >>
             ELSE IF P[k].operator = "/" /\ b[2][1] = 0 THEN << "error", FZero >>
             ELSE << "num", Arithmetic(P[k].operator, a[2], b[2]) >>

Meaning(P, k) == CellMeaning(P, k, Cardinality(DOMAIN P))

\* what the grid holds for k
GridValue(k) ==
    IF cell_graph.at[k].tag = "none" THEN << "none", FZero >>
    ELSE IF IsNumeric(k) THEN << "num", NumAt(k) >>
    ELSE << "unevaluated", FZero >>

\* sheet.evaluate() raised
EvaluateRaised ==
    /\ pc = "failed"
    /\ err \in { "RecursionError", "ZeroDivisionError", "AttributeError", "KeyError" }
    /\ eval_i < Len(sorted_cells)

\* C18: on an acyclic sheet with valid references, in whatever order the
\* cells are visited, Sheet.evaluate returns with every grid entry holding
\* what the contents of the sheet alone determine, and it raises only on a
\* sheet on which it returns in no order.
C18_OrderIndependence ==
    LET P == Parsed.heap
    IN  (Parsed.err = "" /\ AllRefsValid(P) /\ ~HasCycle(P)) =>
            /\ EvaluateReturned => \A k \in DOMAIN P : GridValue(k) = Meaning(P, k)
            /\ EvaluateRaised => \E k \in DOMAIN P : Meaning(P, k)[1] = "error"

\* an evaluation returned that visited an expression before a cell it refers
\* to, and a reference cell before the expression it refers to
C18_Witness ==
    /\ pc = "render"
    /\ LET P == Parsed.heap
       IN  \E k, x \in DOMAIN P :
            /\ IsExprCell(P, k)
            /\ P[k].operator \in { "-", "/" }
            /\ IsRefCell(P, x) /\ P[x].key = k
            /\ \E r \in RefsOf(P, k) :
                    FirstIndex(sorted_cells, x) < FirstIndex(sorted_cells, k)
                    /\ FirstIndex(sorted_cells, k) < FirstIndex(sorted_cells, r)
            /\ NumAt(x) \notin { FZero, Frac(1, 1) }

-----------------------------------------------------------------------------
(* C19 *)

\* C19: the sort of a parsed sheet with valid references, cyclic or not,
\* comes to an end: validation returns or fails.
C19_SortTerminates == (pc = "sort") ~> (pc \in { "evaluate", "failed" })

\* a sort that went through several rounds ended on a sheet with a cycle
C19_Witness ==
    /\ pc \in { "evaluate", "failed" }
    /\ Len(sorted_cells) > 1
    /\ HasCycle(Parsed.heap)

-----------------------------------------------------------------------------
(* C20 *)

\* C20: once validation has returned, every key of the grid is in the
\* processing order, and when the evaluation has returned no grid entry is
\* the unevaluated cell the parser created: it holds a number or None.
C20_EveryKeyIsProcessed ==
    /\ ValidateReturned =>
            \A k \in DOMAIN cell_graph.at : k \in Range(sorted_cells)
    /\ EvaluateReturned =>
            \A k \in DOMAIN cell_graph.at : GridValue(k)[1] \in { "num", "none" }

\* main is through with a sheet in which a cell refers to an expression that
\* itself refers to a cell
C20_Witness ==
    /\ pc = "done"
    /\ LET P == Parsed.heap
       IN  \E k \in DOMAIN P :
            /\ IsRefCell(P, k)
            /\ IsExprCell(P, P[k].key)
            /\ RefsOf(P, P[k].key) # {}
====
